---------------------------- MODULE Spec2Model ----------------------------
(***************************************************************************)
(* Model of the touch bridge of parrot-os (src/touch_input.py):            *)
(*   - TouchHandler.handle_device : the loop that reads raw multi-touch    *)
(*     events from one input device, keeps the table `touches` and calls   *)
(*     broadcast() for every tracking-id / X / Y event;                    *)
(*   - TouchHandler.broadcast     : the fan-out to the registered clients; *)
(*   - TouchHandler.handle_client : the per-connection handler (response   *)
(*     headers, registration, keep-alive read loop, close step);           *)
(*   - TouchHandler.run           : starts the TCP server.                 *)
(* Python dicts are functions; a dict whose keys are optional ('x', 'y')   *)
(* is a function whose DOMAIN holds exactly the keys that are present.     *)
(***************************************************************************)
EXTENDS Integers, Sequences, FiniteSets, TLC

(***************************************************************************)
(* Bounds of the exploration.                                              *)
(***************************************************************************)
\* Free exploration: raw event sequences up to this length.
MaxLen == 3
\* Connections that may be accepted.
NumConns == 2
\* Chunks of bytes one peer sends on its connection.
MaxChunks == 1

Conns == 1..NumConns

\* Requests made to the feeding API.
MaxCalls == 4

(***************************************************************************)
(* Raw input events (evdev InputEvent: type, code, value).                 *)
(***************************************************************************)
Abs(code, value) == [type |-> "EV_ABS", code |-> code, value |-> value]
SlotEv(v) == Abs("ABS_MT_SLOT", v)
TidEv(v)  == Abs("ABS_MT_TRACKING_ID", v)
XEv(v)    == Abs("ABS_MT_POSITION_X", v)
YEv(v)    == Abs("ABS_MT_POSITION_Y", v)
SynEv     == [type |-> "EV_SYN", code |-> "SYN_REPORT", value |-> 0]

\* The events the device may deliver in the free exploration.
RawEvents == {SlotEv(1), TidEv(-1), TidEv(1), XEv(3), YEv(4), SynEv}

\* The two end-to-end scenarios of the specification (section 8).
Scenario1 == <<SlotEv(0), TidEv(5), XEv(10), YEv(20), SynEv>>
Scenario2 == <<SlotEv(0), TidEv(5), SynEv, XEv(15), SynEv, TidEv(-1), SynEv>>

\* Two touches in two slots, then a position event for the first slot.
Scenario3 == <<TidEv(5), SlotEv(1), TidEv(7), SlotEv(0), XEv(3), SynEv>>

IsPrefix(s, t) == Len(s) <= Len(t) /\ SubSeq(t, 1, Len(s)) = s

\* The raw event sequences the exploration covers: every sequence over
\* RawEvents up to MaxLen, and the scenarios with all their prefixes.
Explored(inp) ==
    \/ Len(inp) <= MaxLen /\ \A i \in 1..Len(inp) : inp[i] \in RawEvents
    \/ IsPrefix(inp, Scenario1)
    \/ IsPrefix(inp, Scenario2)
    \/ IsPrefix(inp, Scenario3)

(***************************************************************************)
(* State.                                                                  *)
(***************************************************************************)
VARIABLES
    serving,      \* run(): the TCP server has been started
    devpc,        \* handle_device: "idle", "reading" (in the async for), "done"
    devErr,       \* the exception that ended handle_device, or "none"
    input,        \* the raw events the read loop has yielded so far
    touches,      \* self.touches: tracking_id -> dict
    touchOrder,   \* insertion order of the keys of self.touches
    published,    \* the calls of broadcast(data): <<[ev, data]>>, ev = index in input
    clients,      \* self.clients
    sendFailed,   \* connections on which a client.send(msg) has raised
    connpc,       \* handle_client: "idle", "drain", "open", "closed"
    sent,         \* what was written to the connection's writer
    inbox,        \* what the peer has sent and the handler has not read:
                  \* chunks of bytes, then "EOF" once the peer has closed
    recvd,        \* chunks the handler has read
    sockClosed,   \* writer.close() has been called
    \* src/app.py, the feeding API:
    pellets_today,  \* app_state["pellets_today"]
    bonus_earned,   \* app_state["bonus_earned"]
    last_feeding,   \* app_state["last_feeding"]: <<>> for None, <<t>> for a time
    clock,          \* the number of requests handled (datetime.now())
    lastCall,       \* the last request: <<>> or <<endpoint, argument>>
    response        \* the HTTP status of the last request (0: none yet)

appVars == <<pellets_today, bonus_earned, last_feeding, clock, lastCall,
             response>>

touchVars == <<serving, devpc, devErr, input, touches, touchOrder, published,
               clients, sendFailed, connpc, sent, inbox, recvd, sockClosed>>

vars == <<touchVars, appVars>>

devVars  == <<devpc, devErr, input, touches, touchOrder, published>>
connVars == <<connpc, sent, inbox, recvd, sockClosed>>

(***************************************************************************)
(* Python dict helpers.                                                    *)
(***************************************************************************)
Get(d, k, default) == IF k \in DOMAIN d THEN d[k] ELSE default
Put(d, k, v) == (k :> v) @@ d
Del(d, k) == [j \in (DOMAIN d) \ {k} |-> d[j]]

EmptyDict == [j \in {} |-> 0]

Init ==
    /\ serving = FALSE
    /\ devpc = "idle"
    /\ devErr = "none"
    /\ input = <<>>
    /\ touches = EmptyDict
    /\ touchOrder = <<>>
    /\ published = <<>>
    /\ clients = {}
    /\ sendFailed = {}
    /\ connpc = [c \in Conns |-> "idle"]
    /\ sent = [c \in Conns |-> <<>>]
    /\ inbox = [c \in Conns |-> <<>>]
    /\ recvd = [c \in Conns |-> <<>>]
    /\ sockClosed = [c \in Conns |-> FALSE]
    /\ pellets_today = 0
    /\ bonus_earned = 0
    /\ last_feeding = <<>>
    /\ clock = 0
    /\ lastCall = <<>>
    /\ response = 0


(***************************************************************************)
(* handle_device, the body of the read loop for one event (lines 62-109).  *)
(* The result is the new table, the new insertion order and the data the   *)
(* event passes to broadcast() (at most one call per event).               *)
(***************************************************************************)
Result(t, ord, emit) == [touches |-> t, order |-> ord, emit |-> emit]

\* touches[k] = {'slot': k}: a new key goes to the end of the dict, an
\* existing key keeps its place and loses its old 'x' and 'y'.
NewTouch(t, ord, k) ==
    [touches |-> Put(t, k, [slot |-> k]),
     order   |-> IF k \in DOMAIN t THEN ord ELSE Append(ord, k)]

\* Lines 72-76: the first touch, in dict order, whose 'slot' equals the
\* event value is deleted and a touch_end is broadcast for it.
LiftMatches(t, ord, v) ==
    {i \in 1..Len(ord) : "slot" \in DOMAIN t[ord[i]] /\ t[ord[i]].slot = v}

Lift(t, ord, v) ==
    LET M == LiftMatches(t, ord, v) IN
    IF M = {} THEN Result(t, ord, <<>>)
    ELSE LET i == CHOOSE j \in M : \A k \in M : j <= k
             tid == ord[i]
         IN Result(Del(t, tid), SelectSeq(ord, LAMBDA k : k # tid),
                   <<[type |-> "touch_end", id |-> tid]>>)

\* Lines 77-80.
Start(t, ord, v) ==
    LET n == NewTouch(t, ord, v) IN
    Result(n.touches, n.order, <<[type |-> "touch_start", id |-> v]>>)

\* Lines 82-93 (axis = "x") and 95-106 (axis = "y"): tracking_id is still
\* None here, so the touch is the one keyed by len(self.touches).
Position(t, ord, axis, v) ==
    LET tid == Cardinality(DOMAIN t)
        n   == IF tid \in DOMAIN t THEN [touches |-> t, order |-> ord]
               ELSE NewTouch(t, ord, tid)
        t2  == Put(n.touches, tid, Put(n.touches[tid], axis, v))
    IN Result(t2, n.order,
              <<[type |-> "touch_move", id |-> tid,
                 x |-> IF axis = "x" THEN v ELSE Get(t2[tid], "x", 0),
                 y |-> IF axis = "y" THEN v ELSE Get(t2[tid], "y", 0)]>>)

HandleEvent(t, ord, e) ==
    IF e.type = "EV_ABS" THEN
        IF e.code = "ABS_MT_TRACKING_ID" THEN
            IF e.value = -1 THEN Lift(t, ord, e.value)
            ELSE Start(t, ord, e.value)
        ELSE IF e.code = "ABS_MT_POSITION_X" THEN Position(t, ord, "x", e.value)
        ELSE IF e.code = "ABS_MT_POSITION_Y" THEN Position(t, ord, "y", e.value)
        ELSE Result(t, ord, <<>>)
    ELSE Result(t, ord, <<>>)

(***************************************************************************)
(* run (lines 123-142): find_touch_devices never returns an empty list, so *)
(* the server is started; no task is created for handle_device.            *)
(***************************************************************************)
Run ==
    /\ ~serving
    /\ serving' = TRUE
    /\ UNCHANGED <<appVars, devVars, clients, sendFailed, connVars>>

(***************************************************************************)
(* handle_device (lines 55-112).                                           *)
(***************************************************************************)
\* Lines 57-59: the device is opened; InputDevice() raises OSError when the
\* path cannot be opened, which the handler's except clause swallows.
StartDevice(opened) ==
    /\ devpc = "idle"
    /\ devpc' = IF opened THEN "reading" ELSE "done"
    /\ devErr' = IF opened THEN "none" ELSE "OSError"
    /\ UNCHANGED <<appVars, serving, input, touches, touchOrder, published,
                   clients, sendFailed, connVars>>

\* Lines 61-112, one event.  propsOk: whether the installed evdev lets
\* line 66 read dev.properties (an InputDevice without that attribute
\* raises AttributeError on every EV_ABS event).  broadcast (lines 114-121)
\* with a non-empty self.clients evaluates client.send for a StreamWriter,
\* which raises AttributeError while the argument list of gather is built;
\* the exception leaves broadcast and is caught at line 111, which ends
\* the read loop.
ReadEvent(e, propsOk) ==
    /\ devpc = "reading"
    /\ Explored(Append(input, e))
    /\ input' = Append(input, e)
    /\ IF e.type = "EV_ABS" /\ ~propsOk
       THEN /\ devpc' = "done"
            /\ devErr' = "AttributeError: properties"
            /\ UNCHANGED <<touches, touchOrder, published, sendFailed>>
       ELSE LET r == HandleEvent(touches, touchOrder, e) IN
            /\ touches' = r.touches
            /\ touchOrder' = r.order
            /\ IF r.emit = <<>>
               THEN UNCHANGED <<devpc, devErr, published, sendFailed>>
               ELSE /\ published' = Append(published,
                                      [ev |-> Len(input'), data |-> r.emit[1]])
                    /\ IF clients = {}
                       THEN UNCHANGED <<devpc, devErr, sendFailed>>
                       ELSE /\ \E c \in clients : sendFailed' = sendFailed \cup {c}
                            /\ devpc' = "done"
                            /\ devErr' = "AttributeError: send"
    /\ UNCHANGED <<appVars, serving, clients, connVars>>

\* Line 61: the read loop raises OSError (the device went away).
DeviceReadError ==
    /\ devpc = "reading"
    /\ devpc' = "done"
    /\ devErr' = "OSError"
    /\ UNCHANGED <<appVars, serving, input, touches, touchOrder, published,
                   clients, sendFailed, connVars>>

(***************************************************************************)
(* handle_client (lines 144-167).                                          *)
(***************************************************************************)
ResponseHeaders ==
    <<"HTTP/1.1 101 Switching Protocols\r\n", "Upgrade: websocket\r\n",
      "Connection: Upgrade\r\n", "Sec-WebSocket-Accept: *\r\n\r\n">>

\* What a peer sends: its upgrade request.  The handler treats every
\* chunk of bytes alike.
PeerChunks == {"request"}

\* A close step that forgets self.clients.discard(writer).
CloseStepNoDiscard(cl, closed, c) ==
    [clients |-> cl, sockClosed |-> [closed EXCEPT ![c] = TRUE]]

\* Lines 165-167, the finally clause: discard from the registry, close.
CloseStep(cl, closed, c) ==
    [clients |-> cl \ {c}, sockClosed |-> [closed EXCEPT ![c] = TRUE]]

\* The handler leaves through finally; closing the socket drops what the
\* peer sent and nobody read.
Finally(c) ==
    LET r == CloseStep(clients, sockClosed, c) IN
    /\ clients' = r.clients
    /\ sockClosed' = r.sockClosed
    /\ connpc' = [connpc EXCEPT ![c] = "closed"]
    /\ inbox' = [inbox EXCEPT ![c] = <<>>]

\* Lines 148-152: the server accepted the connection; the handler writes
\* the four response lines and waits in drain().
Accept(c) ==
    /\ serving
    /\ connpc[c] = "idle"
    /\ sent' = [sent EXCEPT ![c] = @ \o ResponseHeaders]
    /\ connpc' = [connpc EXCEPT ![c] = "drain"]
    /\ UNCHANGED <<appVars, serving, devVars, clients, sendFailed, inbox, recvd,
                   sockClosed>>

\* Lines 152-159: drain() returns, the writer is registered and the
\* handler waits in reader.read(1024).
DrainDone(c) ==
    /\ connpc[c] = "drain"
    /\ clients' = clients \cup {c}
    /\ connpc' = [connpc EXCEPT ![c] = "open"]
    /\ UNCHANGED <<appVars, serving, devVars, sendFailed, sent, inbox, recvd,
                   sockClosed>>

\* Line 152 raises (connection lost): lines 163-167.
DrainError(c) ==
    /\ connpc[c] = "drain"
    /\ Finally(c)
    /\ UNCHANGED <<appVars, serving, devVars, sendFailed, sent, recvd>>

\* Lines 158-161: read returned data, which is dropped; the loop goes on.
ReadChunk(c) ==
    /\ connpc[c] = "open"
    /\ inbox[c] # <<>>
    /\ Head(inbox[c]) # "EOF"
    /\ recvd' = [recvd EXCEPT ![c] = Append(@, Head(inbox[c]))]
    /\ inbox' = [inbox EXCEPT ![c] = Tail(@)]
    /\ UNCHANGED <<appVars, serving, devVars, clients, sendFailed, connpc, sent,
                   sockClosed>>

\* Lines 159-161 and 165-167: read returned b'' (EOF).
ReadEOF(c) ==
    /\ connpc[c] = "open"
    /\ inbox[c] # <<>>
    /\ Head(inbox[c]) = "EOF"
    /\ Finally(c)
    /\ UNCHANGED <<appVars, serving, devVars, sendFailed, sent, recvd>>

\* Line 159 raises (connection reset): lines 163-167.
ReadError(c) ==
    /\ connpc[c] = "open"
    /\ Finally(c)
    /\ UNCHANGED <<appVars, serving, devVars, sendFailed, sent, recvd>>

(***************************************************************************)
(* The peer of a connection.                                               *)
(***************************************************************************)
PeerHasClosed(c) == inbox[c] # <<>> /\ inbox[c][Len(inbox[c])] = "EOF"

PeerSend(c, k) ==
    /\ connpc[c] \in {"drain", "open"}
    /\ ~PeerHasClosed(c)
    /\ Len(recvd[c]) + Len(inbox[c]) < MaxChunks
    /\ inbox' = [inbox EXCEPT ![c] = Append(@, k)]
    /\ UNCHANGED <<appVars, serving, devVars, clients, sendFailed, connpc, sent, recvd,
                   sockClosed>>

PeerClose(c) ==
    /\ connpc[c] \in {"drain", "open"}
    /\ ~PeerHasClosed(c)
    /\ inbox' = [inbox EXCEPT ![c] = Append(@, "EOF")]
    /\ UNCHANGED <<appVars, serving, devVars, clients, sendFailed, connpc, sent, recvd,
                   sockClosed>>

AnyEvent ==
    RawEvents \cup {Scenario1[i] : i \in 1..Len(Scenario1)}
              \cup {Scenario2[i] : i \in 1..Len(Scenario2)}
              \cup {Scenario3[i] : i \in 1..Len(Scenario3)}

Next ==
    \/ Run
    \/ \E opened \in BOOLEAN : StartDevice(opened)
    \/ \E e \in AnyEvent, propsOk \in BOOLEAN : ReadEvent(e, propsOk)
    \/ DeviceReadError
    \/ \E c \in Conns : Accept(c)
    \/ \E c \in Conns : DrainDone(c)
    \/ \E c \in Conns : DrainError(c)
    \/ \E c \in Conns : ReadChunk(c)
    \/ \E c \in Conns : ReadEOF(c)
    \/ \E c \in Conns : ReadError(c)
    \/ \E c \in Conns, k \in PeerChunks : PeerSend(c, k)
    \/ \E c \in Conns : PeerClose(c)

Spec == Init /\ [][Next]_vars

(***************************************************************************)
(* Vocabulary of the claims.  The type-B protocol reading of a raw event   *)
(* sequence: the current slot is the value of the last slot-select event   *)
(* (slot 0 before any), and a slot holds the tracking id of the last       *)
(* tracking-id event that arrived while it was current (-1: no touch).     *)
(***************************************************************************)
Prefix(inp, n) == SubSeq(inp, 1, n)

MaxOf(S) == CHOOSE m \in S : \A k \in S : k <= m

CurSlot(inp) ==
    LET I == {i \in 1..Len(inp) : inp[i].code = "ABS_MT_SLOT"} IN
    IF I = {} THEN 0 ELSE inp[MaxOf(I)].value

TidAt(inp, s) ==
    LET I == {i \in 1..Len(inp) : /\ inp[i].code = "ABS_MT_TRACKING_ID"
                                  /\ CurSlot(Prefix(inp, i - 1)) = s} IN
    IF I = {} THEN -1 ELSE inp[MaxOf(I)].value

\* The tracking id an event at position i of inp is about.
TouchOf(inp, i) == TidAt(Prefix(inp, i - 1), CurSlot(Prefix(inp, i - 1)))

IsSyn(e) == e.type = "EV_SYN"
IsAxis(e) == e.code \in {"ABS_MT_POSITION_X", "ABS_MT_POSITION_Y"}
IsLift(e) == e.code = "ABS_MT_TRACKING_ID" /\ e.value = -1

\* The input ends with a commit marker; the frame it commits starts after
\* the commit marker before it.
AtCommit == input # <<>> /\ IsSyn(input[Len(input)])

FrameStart ==
    LET I == {i \in 1..(Len(input) - 1) : IsSyn(input[i])} IN
    IF I = {} THEN 1 ELSE MaxOf(I) + 1

\* The last value an axis event gave to touch t since t was assigned.
FinalCoord(t, code) ==
    LET I == {i \in 1..Len(input) : input[i].code = code /\ TouchOf(input, i) = t} IN
    IF I = {} THEN 0 ELSE input[MaxOf(I)].value

PubData == [k \in 1..Len(published) |-> published[k].data]

MovesFor(t, from, to) ==
    {k \in 1..Len(published) : /\ published[k].ev \in from..to
                               /\ published[k].data.type = "touch_move"
                               /\ published[k].data.id = t}

\* C1: at every commit marker, each live touch whose X or Y was updated in
\* the committed frame has exactly one touch_move in that frame, and that
\* move carries the touch's final X and Y.
C1_OneMovePerTouchPerCommit ==
    AtCommit =>
        \A i \in FrameStart..Len(input) :
            (IsAxis(input[i]) /\ TouchOf(input, i) >= 0) =>
                LET t == TouchOf(input, i)
                    M == MovesFor(t, FrameStart, Len(input))
                IN /\ Cardinality(M) = 1
                   /\ \A k \in M :
                        /\ published[k].data.x = FinalCoord(t, "ABS_MT_POSITION_X")
                        /\ published[k].data.y = FinalCoord(t, "ABS_MT_POSITION_Y")

\* C2: when a frame is committed in which a lift arrived for a slot that
\* held tracking id t (and t was not assigned again in that frame), a
\* touch_end with id t has been emitted since the lift and t is no longer
\* in the live table.
C2_LiftEndsTheTouchOfItsSlot ==
    AtCommit =>
        \A i \in FrameStart..Len(input) :
            (IsLift(input[i]) /\ TouchOf(input, i) >= 0) =>
                LET t == TouchOf(input, i) IN
                (\A j \in i..Len(input) : input[j] # TidEv(t)) =>
                    /\ \E k \in 1..Len(published) :
                          /\ published[k].ev >= i
                          /\ published[k].data = [type |-> "touch_end", id |-> t]
                    /\ t \notin DOMAIN touches

\* C3: the raw sequence [slot 0, tracking id 5, X=10, Y=20, COMMIT] yields
\* exactly [touch_start{id 5, x 0, y 0}, touch_move{id 5, x 10, y 20}].
C3_Scenario1Events ==
    input = Scenario1 =>
        PubData = <<[type |-> "touch_start", id |-> 5, x |-> 0, y |-> 0],
                    [type |-> "touch_move", id |-> 5, x |-> 10, y |-> 20]>>

\* C4: the raw sequence [slot 0, tracking id 5, COMMIT, X=15, COMMIT,
\* tracking id -1, COMMIT] yields three flushes, each at a commit marker
\* (events 3, 5 and 7): touch_start{5,0,0}, touch_move{5,15,0},
\* touch_end{5}; afterwards the live table is empty.
C4_Scenario2Flushes ==
    input = Scenario2 =>
        /\ published =
             <<[ev |-> 3, data |-> [type |-> "touch_start", id |-> 5, x |-> 0, y |-> 0]],
               [ev |-> 5, data |-> [type |-> "touch_move", id |-> 5, x |-> 15, y |-> 0]],
               [ev |-> 7, data |-> [type |-> "touch_end", id |-> 5]]>>
        /\ DOMAIN touches = {}

\* What a connection has been sent after the response headers.
Delivered(c) == SubSeq(sent[c], Len(ResponseHeaders) + 1, Len(sent[c]))

\* The events published by a step.
NewlyPublished ==
    [k \in 1..(Len(published') - Len(published)) |->
        published'[Len(published) + k].data]

\* C5: every step extends the stream of every subscriber that is
\* registered before and after it by exactly the events the step
\* published, in publish order (so all subscribers registered over the
\* same interval have received the same sequence).
C5_SameSequenceInPublishOrder ==
    [][\A c \in clients \cap clients' :
          Delivered(c)' = Delivered(c) \o NewlyPublished]_vars

\* C6: a publish never stops the device-reading task, and every
\* subscriber registered when it happens either has been delivered one
\* more event or has been removed from the registry.
C6_PublishNeverBlocksOrDrops ==
    [][Len(published') > Len(published) =>
          /\ devpc' = "reading"
          /\ \A c \in clients :
                \/ c \notin clients'
                \/ Len(Delivered(c)') = Len(Delivered(c)) + 1]_vars

\* C7: the device-reading loop is never ended by a failure of a
\* subscriber connection.
C7_SubscriberFailureIsContained ==
    devErr # "AttributeError: send"

\* C8: a subscriber to which a write has failed is no longer in the
\* registry.
C8_FailedWriterIsRemoved ==
    sendFailed \cap clients = {}

\* C9: the registry holds only open connections whose socket is not
\* closed; a closed connection is out of the registry with its socket
\* closed, and the close step applied to it again changes nothing.
C9_RegistryHoldsOnlyOpen ==
    \A c \in Conns :
        /\ c \in clients => (connpc[c] = "open" /\ ~sockClosed[c])
        /\ connpc[c] = "closed" =>
              /\ c \notin clients
              /\ sockClosed[c]
              /\ CloseStep(clients, sockClosed, c) =
                    [clients |-> clients, sockClosed |-> sockClosed]

\* A connection that was open (it has read a chunk) is closed while
\* another one is registered.
C9_Witness ==
    \E c, d \in Conns :
        /\ connpc[c] = "closed" /\ recvd[c] # <<>>
        /\ d \in clients

\* C10: a registered connection has had its upgrade request consumed and
\* the response headers written, and has been sent the connected
\* notification first, exactly once.
C10_RegisteredAfterHandshake ==
    \A c \in clients :
        /\ recvd[c] # <<>> /\ recvd[c][1] = "request"
        /\ Prefix(sent[c], Len(ResponseHeaders)) = ResponseHeaders
        /\ Delivered(c) # <<>>
        /\ Delivered(c)[1] = "{\"type\": \"connected\"}"
        /\ \A k \in 2..Len(Delivered(c)) : Delivered(c)[k] # "{\"type\": \"connected\"}"


\* C11: a connection whose peer closed without sending an upgrade request
\* is not in the registry.
C11_NoRequestNeverRegistered ==
    \A c \in Conns :
        (recvd[c] = <<>> /\ inbox[c] = <<"EOF">>) => c \notin clients

\* The frame (number of commit markers before it) an input position is in.
FrameOf(i) == Cardinality({j \in 1..(i - 1) : IsSyn(input[j])})

Rank(type) ==
    IF type = "touch_end" THEN 0 ELSE IF type = "touch_start" THEN 1 ELSE 2

\* C12: among the events emitted for one frame, every touch_end precedes
\* every touch_start and every touch_start precedes every touch_move; and
\* no touch_move for an id is emitted after the touch_end of that id
\* unless the id was started again in between.
C12_EndStartMoveOrder ==
    \A k, l \in 1..Len(published) :
        k < l =>
            /\ FrameOf(published[k].ev) = FrameOf(published[l].ev) =>
                  Rank(published[k].data.type) <= Rank(published[l].data.type)
            /\ (/\ published[k].data.type = "touch_end"
                /\ published[l].data.type = "touch_move"
                /\ published[k].data.id = published[l].data.id) =>
                  \E m \in (k + 1)..(l - 1) :
                      published[m].data =
                          [type |-> "touch_start", id |-> published[k].data.id]

\* C13: a step that reads an X or Y event while the current slot holds no
\* touch emits nothing and leaves the live table as it was.
C13_PositionWithoutTouchIsNoOp ==
    [][(/\ Len(input') = Len(input) + 1
        /\ IsAxis(input'[Len(input')])
        /\ TouchOf(input', Len(input')) = -1) =>
            (published' = published /\ touches' = touches)]_vars

\* The slots the input has named, and the tracking ids they hold.
SlotsOf(inp) ==
    {0} \cup {inp[i].value : i \in {j \in 1..Len(inp) : inp[j].code = "ABS_MT_SLOT"}}

LiveIds(inp) == {TidAt(inp, s) : s \in SlotsOf(inp)} \ {-1}

AssignedIds(inp) ==
    {inp[i].value : i \in {j \in 1..Len(inp) :
                              /\ inp[j].code = "ABS_MT_TRACKING_ID"
                              /\ inp[j].value >= 0}}

\* C14: while the read loop runs, the keys of the live table are exactly
\* the tracking ids the device assigned and has not lifted, and every
\* emitted event carries a tracking id the device assigned.
C14_TableKeyedByLiveTrackingIds ==
    devpc = "reading" =>
        /\ DOMAIN touches = LiveIds(input)
        /\ \A k \in 1..Len(published) :
              published[k].data.id \in AssignedIds(input)

\* C15: every emitted event carries a seq number, and the seq numbers of
\* consecutive emitted events increase by one.
C15_SeqStrictlyIncreasingNoGaps ==
    \A k \in 1..Len(published) :
        /\ "seq" \in DOMAIN published[k].data
        /\ k > 1 => published[k].data.seq = published[k - 1].data.seq + 1

\* C18: with two or more touches live, a move emitted for a position event
\* carries the tracking id held by the current slot, and that touch's
\* entry in the table holds the new coordinate.
C18_PositionGoesToCurrentSlot ==
    \A k \in 1..Len(published) :
        LET i == published[k].ev
            t == TouchOf(input, i)
        IN (/\ published[k].data.type = "touch_move"
            /\ Cardinality(LiveIds(Prefix(input, i))) >= 2
            /\ t >= 0) =>
               published[k].data.id = t

\* C19: once run() has started the server, handle_device has been started
\* for the device.
C19_RunStartsTheDeviceTask ==
    serving => devpc # "idle"


(***************************************************************************)
(* The connection handler alone, with peers that send frames once the      *)
(* connection is up: ping, data (text) and close.  handle_client reads     *)
(* them with reader.read(1024) like any other bytes.                       *)
(***************************************************************************)
PeerFrames == {"ping", "data", "close"}

NextFrames ==
    \/ Run
    \/ \E c \in Conns : Accept(c)
    \/ \E c \in Conns : DrainDone(c)
    \/ \E c \in Conns : DrainError(c)
    \/ \E c \in Conns : ReadChunk(c)
    \/ \E c \in Conns : ReadEOF(c)
    \/ \E c \in Conns : ReadError(c)
    \/ \E c \in Conns, k \in PeerFrames : PeerSend(c, k)
    \/ \E c \in Conns : PeerClose(c)

SpecFrames == Init /\ [][NextFrames]_vars

\* A pong frame on the wire: opcode byte 0x8A, length 0.
PongFrame == <<138, 0>>

\* C16: when an open connection reads a frame, a ping is answered with a
\* pong written to that connection, a data frame changes nothing of the
\* connection, and a close frame takes the connection out of the open
\* state and out of the registry.
C16_PingPongDataClose ==
    [][\A c \in Conns :
          (connpc[c] = "open" /\ Len(recvd'[c]) = Len(recvd[c]) + 1) =>
              LET f == recvd'[c][Len(recvd'[c])] IN
              /\ f = "ping" => sent'[c] = Append(sent[c], PongFrame)
              /\ f = "data" => (/\ sent'[c] = sent[c]
                                /\ connpc'[c] = "open"
                                /\ clients' = clients)
              /\ f = "close" => (connpc'[c] # "open" /\ c \notin clients')]_vars


(***************************************************************************)
(* broadcast, line 117: msg = json.dumps(data), as the bytes of the text.  *)
(* The keys come in the order the dict was written, separated by ", " and  *)
(* ": "; line 119 hands msg itself to client.send.                         *)
(***************************************************************************)
RECURSIVE DecimalDigits(_)
DecimalDigits(n) ==
    IF n < 10 THEN <<48 + n>>
    ELSE Append(DecimalDigits(n \div 10), 48 + (n % 10))

\* str(n) for an int: "-" is byte 45.
IntText(n) == IF n < 0 THEN <<45>> \o DecimalDigits(0 - n) ELSE DecimalDigits(n)

\* The text of the three values of 'type'.
TypeText(type) ==
    IF type = "touch_start" THEN <<116, 111, 117, 99, 104, 95, 115, 116, 97, 114, 116>>
    ELSE IF type = "touch_move" THEN <<116, 111, 117, 99, 104, 95, 109, 111, 118, 101>>
    ELSE <<116, 111, 117, 99, 104, 95, 101, 110, 100>>

\* {"type": "<type>", "id": <id>[, "x": <x>, "y": <y>]}
JsonDumps(data) ==
    <<123, 34, 116, 121, 112, 101, 34, 58, 32, 34>> \o TypeText(data.type)
    \o <<34, 44, 32, 34, 105, 100, 34, 58, 32>> \o IntText(data.id)
    \o (IF "x" \in DOMAIN data
        THEN <<44, 32, 34, 120, 34, 58, 32>> \o IntText(data.x) \o <<44, 32, 34, 121, 34, 58, 32>> \o IntText(data.y)
        ELSE <<>>)
    \o <<125>>

\* Lines 117-119: what broadcast passes to client.send for data.
SendArg(data) == JsonDumps(data)

(***************************************************************************)
(* The wire frame of the specification (section 6), read back: byte 0x81,  *)
(* then the length in one byte (< 126), or 126 and two big-endian bytes,   *)
(* or 127 and eight big-endian bytes, then the payload.  <<-1>> stands for *)
(* bytes that are not such a frame.                                        *)
(***************************************************************************)
RECURSIVE BigEndian(_)
BigEndian(bytes) ==
    IF bytes = <<>> THEN 0
    ELSE 256 * BigEndian(SubSeq(bytes, 1, Len(bytes) - 1)) + bytes[Len(bytes)]

FrameDecode(w) ==
    IF Len(w) < 2 \/ w[1] # 129 THEN <<-1>>
    ELSE IF w[2] < 126
         THEN IF Len(w) = 2 + w[2] THEN SubSeq(w, 3, Len(w)) ELSE <<-1>>
    ELSE IF w[2] = 126
         THEN IF Len(w) >= 4 /\ Len(w) = 4 + BigEndian(SubSeq(w, 3, 4))
                 /\ BigEndian(SubSeq(w, 3, 4)) >= 126
              THEN SubSeq(w, 5, Len(w)) ELSE <<-1>>
    ELSE IF w[2] = 127
         THEN IF Len(w) >= 10 /\ Len(w) = 10 + BigEndian(SubSeq(w, 3, 10))
                 /\ BigEndian(SubSeq(w, 3, 10)) >= 65536
              THEN SubSeq(w, 11, Len(w)) ELSE <<-1>>
    ELSE <<-1>>

\* C17: what broadcast hands to a subscriber for an event is a text frame:
\* its first byte is 0x81 and decoding it gives back the JSON payload.
C17_PayloadIsFramed ==
    (sendFailed # {} /\ published # <<>>) =>
        LET d == published[Len(published)].data
            w == SendArg(d)
        IN /\ w[1] = 129
           /\ FrameDecode(w) = JsonDumps(d)


(***************************************************************************)
(* The feeding API of src/app.py: app_state and the two endpoints that     *)
(* change the pellet counters.  The arguments are ints of any sign.        *)
(***************************************************************************)
\* app_state["pellet_budget"]
pellet_budget == 40
\* The cap of bonus_earned in game_score.
BonusCap == 10

Amounts == {-10, 10, 25}
Points == {-5, 5, 10}

Min(a, b) == IF a <= b THEN a ELSE b

\* feed (lines 59-70).
Feed(amount) ==
    /\ clock < MaxCalls
    /\ clock' = clock + 1
    /\ lastCall' = <<"feed", amount>>
    /\ IF pellets_today + amount > pellet_budget + bonus_earned
       THEN /\ response' = 400
            /\ UNCHANGED <<pellets_today, last_feeding>>
       ELSE /\ pellets_today' = pellets_today + amount
            /\ last_feeding' = <<clock'>>
            /\ response' = 200
    /\ UNCHANGED <<bonus_earned, touchVars>>

\* game_score (lines 72-78).
GameScore(points) ==
    /\ clock < MaxCalls
    /\ clock' = clock + 1
    /\ lastCall' = <<"game_score", points>>
    /\ bonus_earned' = Min(bonus_earned + points, BonusCap)
    /\ response' = 200
    /\ UNCHANGED <<pellets_today, last_feeding, touchVars>>

NextApp ==
    \/ \E amount \in Amounts : Feed(amount)
    \/ \E points \in Points : GameScore(points)

SpecApp == Init /\ [][NextApp]_vars

\* C20: pellets_today never exceeds pellet_budget + bonus_earned and
\* bonus_earned stays within 0..10; a feed call that would exceed the
\* allowance is answered with an error and leaves pellets_today and
\* last_feeding as they were.
C20_FeedingAllowance ==
    /\ [](/\ pellets_today <= pellet_budget + bonus_earned
          /\ bonus_earned \in 0..BonusCap)
    /\ [][(/\ clock' = clock + 1
           /\ lastCall'[1] = "feed"
           /\ pellets_today + lastCall'[2] > pellet_budget + bonus_earned) =>
              (/\ response' = 400
               /\ pellets_today' = pellets_today
               /\ last_feeding' = last_feeding)]_vars

=============================================================================
